---- MODULE Spec2Model ----
(***************************************************************************)
(* PDF2Audio (simple.py): text cleaning, chunk splitting and the parallel  *)
(* synthesis pipeline of process_pdf.                                      *)
(*                                                                         *)
(* A text is a sequence of one-character strings.  None is the empty       *)
(* tuple and Some(v) the one-element tuple <<v>>, for Python values that   *)
(* may be None.                                                            *)
(***************************************************************************)
EXTENDS Integers, Sequences, FiniteSets, TLC

VARIABLES
    fpc,           \* position of the pure-function harness: "input", "cleaned", "recleaned", "split"
    text,          \* clean_text/split_text_into_chunks argument; in process_pdf the extracted text
    max_length,    \* split_text_into_chunks argument max_length
    cleaned,       \* clean_text(text); in process_pdf the local cleaned_text
    recleaned,     \* clean_text(cleaned)
    chunks,        \* result of split_text_into_chunks; in process_pdf the local chunks
    pc,            \* process_pdf: the statement the calling thread is at
    api_key,       \* process_pdf argument api_key
    max_workers,   \* size of the ThreadPoolExecutor's pool
    extract_calls, \* number of calls of extract_text_from_pdf
    synth_calls,   \* chunk index -> number of calls of generate_audio_chunk
    dir_created,   \* os.makedirs(temp_dir) has succeeded in this run
    fs,            \* chunk index i -> content of temp_audio_chunks/chunk_<i>.mp3, for the files that exist
    written,       \* indices of the chunk files written by this run
    task,          \* chunk index -> state of the future submitted for it
    chunk_audio,   \* chunk index -> local chunk_audio of its task
    task_exc,      \* chunk index -> message of the exception its task raised
    chunk_files,   \* the list chunk_files
    yielded,       \* indices of the futures as_completed has yielded, in the order yielded
    exc,           \* exception propagating in the calling thread
    outfile,       \* content of temp_audio.mp3, None while it has not been opened
    idx,           \* position of the loops over chunk_files (assembly, cleanup)
    result         \* value returned by process_pdf

fvars == <<fpc, text, max_length, cleaned, recleaned, chunks>>

pvars == <<pc, api_key, max_workers, extract_calls, synth_calls, dir_created, fs,
           written, task, chunk_audio, task_exc, chunk_files, yielded, exc,
           outfile, idx, result>>

pvars_but_pc == <<api_key, max_workers, extract_calls, synth_calls, dir_created, fs,
                  written, task, chunk_audio, task_exc, chunk_files, yielded, exc,
                  outfile, idx, result>>

vars == <<fvars, pvars>>

None == <<>>
Some(v) == <<v>>

(***************************************************************************)
(* Bounds                                                                  *)
(***************************************************************************)
MaxSplitLen == 6      \* longest text given to split_text_into_chunks
MaxBound == 5         \* largest max_length given to split_text_into_chunks
MaxCleanLen == 9      \* longest text given to clean_text
MaxPages == 2         \* most pages of the PDF given to process_pdf
MaxTtsLength == 2     \* stands for the 4000 of MAX_TTS_LENGTH, scaled to the page texts below
MaxWorkers == 2       \* largest thread pool
MaxByte == 2          \* audio payloads are the one-byte strings <<1>> .. <<MaxByte>>
MaxStale == 1         \* an earlier run may have left the chunk files 0 .. MaxStale-1

(***************************************************************************)
(* Character classes                                                       *)
(***************************************************************************)
NL == "\n"
SP == " "
DOT == "."
BAR == "|"

\* str.strip() and the regex class \s
WHITESPACE == {" ", "\n", "\t", "\r"}

\* the regex class \d
DIGITS == {"0", "1", "2", "3", "4", "5", "6", "7", "8", "9"}

\* the regex class [A-Za-z0-9_\-\.]
TOKENCHARS ==
    DIGITS \cup {"_", "-", "."} \cup
    {"a", "b", "c", "d", "e", "f", "g", "h", "i", "j", "k", "l", "m",
     "n", "o", "p", "q", "r", "s", "t", "u", "v", "w", "x", "y", "z",
     "A", "B", "C", "D", "E", "F", "G", "H", "I", "J", "K", "L", "M",
     "N", "O", "P", "Q", "R", "S", "T", "U", "V", "W", "X", "Y", "Z"}

SplitAlphabet == {"a", DOT, SP, NL}
CleanAlphabet == {NL, "1", BAR}

TextsOver(alphabet, n) == UNION {[1..k -> alphabet] : k \in 0..n}

(***************************************************************************)
(* Regular expressions: a pattern is a sequence of items, each a character *)
(* class with a quantifier.  MatchEnd is the backtracking matcher of       *)
(* Python's re: quantifiers are greedy and give characters back one at a   *)
(* time until the rest of the pattern matches.                             *)
(***************************************************************************)
One(class) == [class |-> class, min |-> 1, many |-> FALSE]
Star(class) == [class |-> class, min |-> 0, many |-> TRUE]
Plus(class) == [class |-> class, min |-> 1, many |-> TRUE]

NoMatch == -1

RECURSIVE RunLen(_, _, _)
\* number of consecutive characters of s from position i on that are in class
RunLen(s, i, class) ==
    IF i <= Len(s) /\ s[i] \in class THEN 1 + RunLen(s, i + 1, class) ELSE 0

RECURSIVE MatchEnd(_, _, _, _)
RECURSIVE MatchRepeat(_, _, _, _, _)
\* position after the match of items k.. of pattern re at position i of s, or NoMatch
MatchEnd(re, k, s, i) ==
    IF k > Len(re) THEN i
    ELSE IF re[k].many
         THEN MatchRepeat(re, k, s, i, RunLen(s, i, re[k].class))
         ELSE IF i <= Len(s) /\ s[i] \in re[k].class
              THEN MatchEnd(re, k + 1, s, i + 1)
              ELSE NoMatch

\* item k takes n characters; on failure of the rest it takes one fewer
MatchRepeat(re, k, s, i, n) ==
    IF n < re[k].min THEN NoMatch
    ELSE LET e == MatchEnd(re, k + 1, s, i + n)
         IN  IF e # NoMatch THEN e ELSE MatchRepeat(re, k, s, i, n - 1)

RECURSIVE SubFrom(_, _, _, _)
SubFrom(re, repl, s, i) ==
    IF i > Len(s) THEN <<>>
    ELSE LET e == MatchEnd(re, 1, s, i)
         IN  IF e # NoMatch
             THEN repl \o SubFrom(re, repl, s, e)
             ELSE <<s[i]>> \o SubFrom(re, repl, s, i + 1)

\* re.sub(re, repl, s): leftmost non-overlapping matches, left to right
\* (none of the patterns below matches the empty string)
re_sub(re, repl, s) == SubFrom(re, repl, s, 1)

\* r'\n\s*\d+\s*\n'
PageNumberPattern ==
    <<One({NL}), Star(WHITESPACE), Plus(DIGITS), Star(WHITESPACE), One({NL})>>

\* r'\n\s*[A-Za-z0-9_\-\.]+\s*\|\s*[A-Za-z0-9_\-\.]+\s*\n'
HeaderFooterPattern ==
    <<One({NL}), Star(WHITESPACE), Plus(TOKENCHARS), Star(WHITESPACE), One({BAR}),
      Star(WHITESPACE), Plus(TOKENCHARS), Star(WHITESPACE), One({NL})>>

\* r'\n{3,}'
NewlinesPattern == <<One({NL}), One({NL}), Plus({NL})>>

clean_text(t) ==
    LET t1 == re_sub(PageNumberPattern, <<NL>>, t)
        t2 == re_sub(PageNumberPattern, <<NL>>, t1)
        t3 == re_sub(HeaderFooterPattern, <<NL>>, t2)
    IN  re_sub(NewlinesPattern, <<NL, NL>>, t3)

(***************************************************************************)
(* String helpers of split_text_into_chunks                                *)
(***************************************************************************)
RECURSIVE lstrip(_)
lstrip(s) == IF s # <<>> /\ Head(s) \in WHITESPACE THEN lstrip(Tail(s)) ELSE s

RECURSIVE rstrip(_)
rstrip(s) ==
    IF s # <<>> /\ s[Len(s)] \in WHITESPACE THEN rstrip(SubSeq(s, 1, Len(s) - 1)) ELSE s

\* str.strip()
strip(s) == rstrip(lstrip(s))

RECURSIVE SplitFrom(_, _, _, _)
SplitFrom(s, sep, i, piece) ==
    IF i > Len(s) THEN <<piece>>
    ELSE IF i + Len(sep) - 1 <= Len(s) /\ SubSeq(s, i, i + Len(sep) - 1) = sep
         THEN <<piece>> \o SplitFrom(s, sep, i + Len(sep), <<>>)
         ELSE SplitFrom(s, sep, i + 1, Append(piece, s[i]))

\* str.split(sep) for a non-empty separator
str_split(s, sep) == SplitFrom(s, sep, 1, <<>>)

RECURSIVE SentencesFrom(_, _, _)
SentencesFrom(s, i, piece) ==
    IF i > Len(s) THEN <<piece>>
    ELSE LET p == Append(piece, s[i])
         IN  IF i >= 2 /\ s[i - 1] = DOT /\ s[i] = SP
             THEN <<p>> \o SentencesFrom(s, i + 1, <<>>)
             ELSE SentencesFrom(s, i + 1, p)

\* re.split(r'(?<=\. )', s): the empty match right after each ". " splits,
\* so each piece but the last ends with ". " and a text ending in ". "
\* gets a last piece that is empty
split_sentences(s) == SentencesFrom(s, 1, <<>>)

(***************************************************************************)
(* split_text_into_chunks: st is the pair of locals chunks, current_chunk  *)
(***************************************************************************)
Flush(st, next) ==
    [chunks |-> Append(st.chunks, strip(st.current_chunk)), current_chunk |-> next]

Extend(st, more) ==
    [chunks |-> st.chunks, current_chunk |-> st.current_chunk \o more]

WordStepUnmeasured(st, word, max) ==
    IF Len(st.current_chunk) + 1 > max
    THEN Flush(st, word \o <<SP>>)
    ELSE Extend(st, word \o <<SP>>)

WordStep(st, word, max) ==
    IF Len(st.current_chunk) + Len(word) + 1 > max
    THEN Flush(st, word \o <<SP>>)
    ELSE Extend(st, word \o <<SP>>)

RECURSIVE WordLoop(_, _, _, _)
WordLoop(st, words, k, max) ==
    IF k > Len(words) THEN st
    ELSE WordLoop(WordStep(st, words[k], max), words, k + 1, max)

SentenceStepByWords(st, sentence, max) ==
    IF Len(st.current_chunk) + Len(sentence) + 1 > max
    THEN WordLoop(st, str_split(sentence, <<SP>>), 1, max)
    ELSE Extend(st, sentence \o <<SP>>)

SentenceStep(st, sentence, max) ==
    IF Len(st.current_chunk) + Len(sentence) + 1 > max
    THEN IF Len(sentence) > max
         THEN WordLoop(st, str_split(sentence, <<SP>>), 1, max)
         ELSE Flush(st, sentence \o <<SP>>)
    ELSE Extend(st, sentence \o <<SP>>)

RECURSIVE SentenceLoop(_, _, _, _)
SentenceLoop(st, sentences, k, max) ==
    IF k > Len(sentences) THEN st
    ELSE SentenceLoop(SentenceStep(st, sentences[k], max), sentences, k + 1, max)

ParagraphStep(st, paragraph, max) ==
    IF Len(st.current_chunk) + Len(paragraph) + 2 > max
    THEN IF Len(paragraph) > max
         THEN SentenceLoop(st, split_sentences(paragraph), 1, max)
         ELSE Flush(st, paragraph \o <<NL, NL>>)
    ELSE Extend(st, paragraph \o <<NL, NL>>)

RECURSIVE ParagraphLoop(_, _, _, _)
ParagraphLoop(st, paragraphs, k, max) ==
    IF k > Len(paragraphs) THEN st
    ELSE ParagraphLoop(ParagraphStep(st, paragraphs[k], max), paragraphs, k + 1, max)

ShortEnoughStrict(t, max) == Len(t) < max

ShortEnough(t, max) == Len(t) <= max

split_text_into_chunks(t, max) ==
    IF ShortEnough(t, max) THEN <<t>>
    ELSE LET st == ParagraphLoop([chunks |-> <<>>, current_chunk |-> <<>>],
                                 str_split(t, <<NL, NL>>), 1, max)
         IN  IF strip(st.current_chunk) # <<>>
             THEN Append(st.chunks, strip(st.current_chunk))
             ELSE st.chunks

EmptyMap == [j \in {} |-> 0]

\* the pipeline variables while process_pdf is not running
PipelineOff ==
    /\ pc = "off"
    /\ api_key = None
    /\ max_workers = 0
    /\ extract_calls = 0
    /\ synth_calls = EmptyMap
    /\ dir_created = FALSE
    /\ fs = EmptyMap
    /\ written = {}
    /\ task = EmptyMap
    /\ chunk_audio = EmptyMap
    /\ task_exc = EmptyMap
    /\ chunk_files = <<>>
    /\ yielded = <<>>
    /\ exc = None
    /\ outfile = None
    /\ idx = 0
    /\ result = None

(***************************************************************************)
(* Harness of the splitter: any text, any bound, one call                  *)
(***************************************************************************)
SplitInit ==
    /\ fpc = "input"
    /\ text \in TextsOver(SplitAlphabet, MaxSplitLen)
    /\ max_length \in 1..MaxBound
    /\ cleaned = None
    /\ recleaned = None
    /\ chunks = <<>>
    /\ PipelineOff

CallSplit ==
    /\ fpc = "input"
    /\ chunks' = split_text_into_chunks(text, max_length)
    /\ fpc' = "split"
    /\ UNCHANGED <<text, max_length, cleaned, recleaned, pvars>>

SplitNext == CallSplit

SpecSplit == SplitInit /\ [][SplitNext]_vars

(***************************************************************************)
(* Harness of the normalizer: any text, clean_text applied twice           *)
(***************************************************************************)
CleanInit ==
    /\ fpc = "input"
    /\ text \in TextsOver(CleanAlphabet, MaxCleanLen)
    /\ max_length = 0
    /\ cleaned = None
    /\ recleaned = None
    /\ chunks = <<>>
    /\ PipelineOff

CallClean ==
    /\ fpc = "input"
    /\ cleaned' = Some(clean_text(text))
    /\ fpc' = "cleaned"
    /\ UNCHANGED <<text, max_length, recleaned, chunks, pvars>>

CallCleanAgain ==
    /\ fpc = "cleaned"
    /\ recleaned' = Some(clean_text(cleaned[1]))
    /\ fpc' = "recleaned"
    /\ UNCHANGED <<text, max_length, cleaned, chunks, pvars>>

CleanNext == CallClean \/ CallCleanAgain

SpecClean == CleanInit /\ [][CleanNext]_vars

(***************************************************************************)
(* process_pdf                                                             *)
(***************************************************************************)
MAX_TTS_LENGTH == MaxTtsLength

\* what page.extract_text() may return for a page: nothing, a word, two
\* words, a page number
PageTexts == {<<>>, <<"a">>, <<"a", SP, "a">>, <<"1">>}
Pdfs == UNION {[1..k -> PageTexts] : k \in 0..MaxPages}

RECURSIVE PagesFrom(_, _)
PagesFrom(pages, k) ==
    IF k > Len(pages) THEN <<>>
    ELSE (IF pages[k] # <<>> THEN pages[k] \o <<NL, NL>> ELSE <<>>) \o PagesFrom(pages, k + 1)

\* lines 20-27: the texts of the non-empty pages, a blank line after each
extract_text_from_pdf(pages) == PagesFrom(pages, 1)

ApiKeys == {None, Some(""), Some("sk")}
Payloads == {<<b>> : b \in 1..MaxByte}
StalePayload == <<0>>
ExcMessages == {"", "timeout"}

temp_audio_path == "temp_audio.mp3"

Range(f) == {f[j] : j \in DOMAIN f}

Put(f, i, v) == [j \in DOMAIN f \cup {i} |-> IF j = i THEN v ELSE f[j]]
Remove(f, i) == [j \in DOMAIN f \ {i} |-> f[j]]

\* chunk indices, 0-based as in enumerate(chunks)
Indices == 0..(Len(chunks) - 1)

Settled(i) == task[i] \in {"returned", "raised"}
RunningOrDone == {i \in DOMAIN task : task[i] # "pending"}

Running == {i \in DOMAIN task : task[i] \in {"calling", "writing"}}

PipelineInit ==
    /\ fpc = "pipeline"
    /\ text = None
    /\ max_length = 0
    /\ cleaned = None
    /\ recleaned = None
    /\ chunks = <<>>
    /\ pc = "check_key"
    /\ api_key \in ApiKeys
    /\ max_workers \in 1..MaxWorkers
    /\ extract_calls = 0
    /\ synth_calls = EmptyMap
    /\ dir_created = FALSE
    /\ \E stale \in {{}, 0..(MaxStale - 1)} : fs = [j \in stale |-> StalePayload]
    /\ written = {}
    /\ task = EmptyMap
    /\ chunk_audio = EmptyMap
    /\ task_exc = EmptyMap
    /\ chunk_files = <<>>
    /\ yielded = <<>>
    /\ exc = None
    /\ outfile = None
    /\ idx = 0
    /\ result = None

\* the return statements of process_pdf
ReturnValue(audio, error, txt) == Some([audio |-> audio, error |-> error, text |-> txt])

KeyIsNone(key) == key = None

\* not api_key (line 125)
KeyMissing(key) == key = None \/ key = Some("")

\* lines 125-126
CheckKey ==
    /\ pc = "check_key"
    /\ IF KeyMissing(api_key)
       THEN /\ result' = ReturnValue(None, Some("OpenAI API key is required"), None)
            /\ pc' = "returned"
       ELSE /\ pc' = "extract"
            /\ UNCHANGED result
    /\ UNCHANGED <<fvars, api_key, max_workers, extract_calls, synth_calls, dir_created,
                   fs, written, task, chunk_audio, task_exc, chunk_files, yielded, exc,
                   outfile, idx>>

\* line 131: extract_text_from_pdf returns the text or raises
Extract ==
    /\ pc = "extract"
    /\ extract_calls' = extract_calls + 1
    /\ \/ /\ \E pdf \in Pdfs : text' = Some(extract_text_from_pdf(pdf))
          /\ pc' = "clean"
          /\ UNCHANGED exc
       \/ /\ \E m \in ExcMessages : exc' = Some(m)
          /\ pc' = "except"
          /\ UNCHANGED text
    /\ UNCHANGED <<fpc, max_length, cleaned, recleaned, chunks, api_key, max_workers,
                   synth_calls, dir_created, fs, written, task, chunk_audio, task_exc,
                   chunk_files, yielded, outfile, idx, result>>

\* line 135
Clean ==
    /\ pc = "clean"
    /\ cleaned' = Some(clean_text(text[1]))
    /\ pc' = "split"
    /\ UNCHANGED <<fpc, text, max_length, recleaned, chunks, pvars_but_pc>>

\* line 139
Split ==
    /\ pc = "split"
    /\ chunks' = split_text_into_chunks(cleaned[1], MAX_TTS_LENGTH)
    /\ pc' = "makedirs"
    /\ UNCHANGED <<fpc, text, max_length, cleaned, recleaned, pvars_but_pc>>

\* lines 146-155: os.makedirs succeeds or raises
MakeDirs ==
    /\ pc = "makedirs"
    /\ \/ /\ dir_created' = TRUE
          /\ chunk_files' = <<>>
          /\ pc' = "submit"
          /\ UNCHANGED exc
       \/ /\ \E m \in ExcMessages : exc' = Some(m)
          /\ pc' = "except"
          /\ UNCHANGED <<dir_created, chunk_files>>
    /\ UNCHANGED <<fvars, api_key, max_workers, extract_calls, synth_calls, fs, written,
                   task, chunk_audio, task_exc, yielded, outfile, idx, result>>

\* lines 175-177: one executor.submit per chunk, in index order
Submit ==
    /\ pc = "submit"
    /\ LET i == Cardinality(DOMAIN task)
       IN  /\ i < Len(chunks)
           /\ task' = Put(task, i, "pending")
           /\ synth_calls' = Put(synth_calls, i, 0)
    /\ UNCHANGED <<fvars, pc, api_key, max_workers, extract_calls, dir_created, fs,
                   written, chunk_audio, task_exc, chunk_files, yielded, exc, outfile,
                   idx, result>>

\* line 180
InitSlots ==
    /\ pc = "submit"
    /\ Cardinality(DOMAIN task) = Len(chunks)
    /\ chunk_files' = [i \in Indices |-> None]
    /\ pc' = "collect"
    /\ UNCHANGED <<fvars, api_key, max_workers, extract_calls, synth_calls, dir_created,
                   fs, written, task, chunk_audio, task_exc, yielded, exc, outfile, idx,
                   result>>

\* the path process_and_save_chunk builds for chunk_index (line 162); the
\* name chunk_<index>.mp3 is identified with the index
chunk_filename(chunk_index) == chunk_index

\* a pool thread takes the next work item off the executor's FIFO queue and
\* calls process_and_save_chunk, which calls generate_audio_chunk (line 160)
StartTask(i) ==
    /\ i \in DOMAIN task
    /\ task[i] = "pending"
    /\ \A j \in DOMAIN task : j < i => task[j] # "pending"
    /\ Cardinality(Running) < max_workers
    /\ task' = [task EXCEPT ![i] = "calling"]
    /\ synth_calls' = [synth_calls EXCEPT ![i] = @ + 1]
    /\ UNCHANGED <<fvars, pc, api_key, max_workers, extract_calls, dir_created, fs,
                   written, chunk_audio, task_exc, chunk_files, yielded, exc, outfile,
                   idx, result>>

\* line 160: generate_audio_chunk returns response.content
SynthReturn(i) ==
    /\ i \in DOMAIN task
    /\ task[i] = "calling"
    /\ \E audio \in Payloads : chunk_audio' = Put(chunk_audio, i, audio)
    /\ task' = [task EXCEPT ![i] = "writing"]
    /\ UNCHANGED <<fvars, pc, api_key, max_workers, extract_calls, synth_calls,
                   dir_created, fs, written, task_exc, chunk_files, yielded, exc,
                   outfile, idx, result>>

SynthRaiseRetry(i) ==
    /\ i \in DOMAIN task
    /\ task[i] = "calling"
    /\ task' = [task EXCEPT ![i] = "pending"]
    /\ UNCHANGED <<fvars, pc, api_key, max_workers, extract_calls, synth_calls,
                   dir_created, fs, written, chunk_audio, task_exc, chunk_files,
                   yielded, exc, outfile, idx, result>>

\* lines 119-121, 167-169: the service call raises and the task re-raises
SynthRaise(i) ==
    /\ i \in DOMAIN task
    /\ task[i] = "calling"
    /\ \E m \in ExcMessages : task_exc' = Put(task_exc, i, m)
    /\ task' = [task EXCEPT ![i] = "raised"]
    /\ UNCHANGED <<fvars, pc, api_key, max_workers, extract_calls, synth_calls,
                   dir_created, fs, written, chunk_audio, chunk_files, yielded, exc,
                   outfile, idx, result>>

\* lines 162-166: the chunk file is written and its name returned
WriteChunkFile(i) ==
    /\ i \in DOMAIN task
    /\ task[i] = "writing"
    /\ fs' = Put(fs, chunk_filename(i), chunk_audio[i])
    /\ written' = written \cup {chunk_filename(i)}
    /\ task' = [task EXCEPT ![i] = "returned"]
    /\ UNCHANGED <<fvars, pc, api_key, max_workers, extract_calls, synth_calls,
                   dir_created, chunk_audio, task_exc, chunk_files, yielded, exc,
                   outfile, idx, result>>

StoreByArrival(files, index, filename) ==
    [files EXCEPT ![Cardinality({j \in DOMAIN files : files[j] # None})] = Some(filename)]

\* slot written for a future that returned (line 185)
StoreResult(files, index, filename) == [files EXCEPT ![index] = Some(filename)]

Swallow(index) == UNCHANGED <<pc, exc, chunk_files>>

\* the except clause of line 186 re-raises (line 188)
Reraise(index) ==
    /\ exc' = Some(task_exc[index])
    /\ pc' = "shutdown"
    /\ UNCHANGED chunk_files

\* lines 181-188: as_completed yields a finished future not yielded before
Collect ==
    /\ pc = "collect"
    /\ \E index \in DOMAIN task \ Range(yielded) :
          /\ Settled(index)
          /\ yielded' = Append(yielded, index)
          /\ IF task[index] = "returned"
             THEN /\ chunk_files' = StoreResult(chunk_files, index, chunk_filename(index))
                  /\ UNCHANGED <<pc, exc>>
             ELSE Reraise(index)
    /\ UNCHANGED <<fvars, api_key, max_workers, extract_calls, synth_calls, dir_created,
                   fs, written, task, chunk_audio, task_exc, outfile, idx, result>>

FirstCompleted == yielded # <<>>

\* as_completed is exhausted: every future has been yielded
LoopExhausted == Range(yielded) = DOMAIN task

CollectDone ==
    /\ pc = "collect"
    /\ LoopExhausted
    /\ pc' = "shutdown"
    /\ UNCHANGED <<fvars, pvars_but_pc>>

\* the tasks the exit of the with block (line 172) waits for
ShutdownWaitsForCollected == Range(yielded)

ShutdownWaitsFor == DOMAIN task

LoseException(e) == "open_output"

\* where control goes after the with block: line 191, or line 210 with the
\* exception raised at line 188
AfterWith(e) == IF e = None THEN "open_output" ELSE "except"

\* exit of the with block: executor.shutdown(wait=True) returns when every
\* submitted task has run; a pending exception then reaches line 210
Shutdown ==
    /\ pc = "shutdown"
    /\ \A i \in ShutdownWaitsFor : Settled(i)
    /\ pc' = AfterWith(exc)
    /\ UNCHANGED <<fvars, pvars_but_pc>>

\* lines 191-192: open(temp_audio_path, "wb")
OpenOutput ==
    /\ pc = "open_output"
    /\ outfile' = Some(<<>>)
    /\ idx' = 0
    /\ pc' = "assemble"
    /\ UNCHANGED <<fvars, api_key, max_workers, extract_calls, synth_calls, dir_created,
                   fs, written, task, chunk_audio, task_exc, chunk_files, yielded, exc,
                   result>>

\* chunk_file and os.path.exists(chunk_file)
Exists(chunk_file) == chunk_file # None /\ chunk_file[1] \in DOMAIN fs

\* lines 194-197: one iteration of the assembly loop
AssembleStep ==
    /\ pc = "assemble"
    /\ idx < Len(chunks)
    /\ outfile' = IF Exists(chunk_files[idx])
                  THEN Some(outfile[1] \o fs[chunk_files[idx][1]])
                  ELSE outfile
    /\ idx' = idx + 1
    /\ UNCHANGED <<fvars, pc, api_key, max_workers, extract_calls, synth_calls,
                   dir_created, fs, written, task, chunk_audio, task_exc, chunk_files,
                   yielded, exc, result>>

AssembleDone ==
    /\ pc = "assemble"
    /\ idx = Len(chunks)
    /\ idx' = 0
    /\ pc' = "cleanup"
    /\ UNCHANGED <<fvars, api_key, max_workers, extract_calls, synth_calls, dir_created,
                   fs, written, task, chunk_audio, task_exc, chunk_files, yielded, exc,
                   outfile, result>>

\* lines 201-206: one iteration of the cleanup loop.  os.remove is taken to
\* succeed on a file that exists, as the writes of lines 163-164 and 192-197
\* are: the model has no fault of a file operation on an existing directory.
CleanupStep ==
    /\ pc = "cleanup"
    /\ idx < Len(chunks)
    /\ fs' = IF Exists(chunk_files[idx]) THEN Remove(fs, chunk_files[idx][1]) ELSE fs
    /\ idx' = idx + 1
    /\ UNCHANGED <<fvars, pc, api_key, max_workers, extract_calls, synth_calls,
                   dir_created, written, task, chunk_audio, task_exc, chunk_files,
                   yielded, exc, outfile, result>>

\* line 208
ReturnSuccess ==
    /\ pc = "cleanup"
    /\ idx = Len(chunks)
    /\ result' = ReturnValue(Some(temp_audio_path), None, cleaned)
    /\ pc' = "returned"
    /\ UNCHANGED <<fvars, api_key, max_workers, extract_calls, synth_calls, dir_created,
                   fs, written, task, chunk_audio, task_exc, chunk_files, yielded, exc,
                   outfile, idx>>

\* line 211
error_msg(e) == "An error occurred: " \o e

\* lines 210-213
Except ==
    /\ pc = "except"
    /\ result' = ReturnValue(None, Some(error_msg(exc[1])), None)
    /\ pc' = "returned"
    /\ UNCHANGED <<fvars, api_key, max_workers, extract_calls, synth_calls, dir_created,
                   fs, written, task, chunk_audio, task_exc, chunk_files, yielded, exc,
                   outfile, idx>>

TaskStep ==
    \E i \in DOMAIN task :
        StartTask(i) \/ SynthReturn(i) \/ SynthRaise(i) \/ WriteChunkFile(i)

Next ==
    \/ CheckKey
    \/ Extract
    \/ Clean
    \/ Split
    \/ MakeDirs
    \/ Submit
    \/ InitSlots
    \/ TaskStep
    \/ Collect
    \/ CollectDone
    \/ Shutdown
    \/ OpenOutput
    \/ AssembleStep
    \/ AssembleDone
    \/ CleanupStep
    \/ ReturnSuccess
    \/ Except

Spec == PipelineInit /\ [][Next]_vars

\* lines 133-140: clean_text and split_text_into_chunks are pure functions of
\* the text and have no guard but the stage reached, so the main thread at
\* one of these stages can always move on to the next stage
TextStageStep ==
    \/ pc = "clean" /\ pc' = "split"
    \/ pc = "split" /\ pc' = "makedirs"

\* the other steps of the main thread, which wait for a call to return or
\* raise, or for the tasks of the pool
MainThreadStep ==
    \/ CheckKey
    \/ Extract
    \/ MakeDirs
    \/ Submit
    \/ InitSlots
    \/ Collect
    \/ CollectDone
    \/ Shutdown
    \/ OpenOutput
    \/ AssembleStep
    \/ AssembleDone
    \/ CleanupStep
    \/ ReturnSuccess
    \/ Except

\* process_pdf with threads that run: the main thread takes its next step
\* when it can, a pool worker takes a task or finishes its call when it can
\* (extraction and every synthesis call return or raise)
FairSpec ==
    /\ Spec
    /\ WF_pc(TextStageStep)
    /\ WF_vars(MainThreadStep)
    /\ WF_vars(TaskStep)

(***************************************************************************)
(* A second run of process_pdf in the same working directory, seen through *)
(* the paths the two runs share: lines 146 and 162 name the same chunk     *)
(* files in every run.  Its payloads are StalePayload.                     *)
(***************************************************************************)
\* lines 161-166 of the other run: one of its tasks writes its chunk file
OtherRunWritesChunk(j) ==
    /\ fs' = Put(fs, chunk_filename(j), StalePayload)
    /\ UNCHANGED <<fvars, pc, api_key, max_workers, extract_calls, synth_calls,
                   dir_created, written, task, chunk_audio, task_exc, chunk_files,
                   yielded, exc, outfile, idx, result>>

\* lines 201-204 of the other run: its cleanup removes the chunk file
OtherRunRemovesChunk(j) ==
    /\ chunk_filename(j) \in DOMAIN fs
    /\ fs' = Remove(fs, chunk_filename(j))
    /\ UNCHANGED <<fvars, pc, api_key, max_workers, extract_calls, synth_calls,
                   dir_created, written, task, chunk_audio, task_exc, chunk_files,
                   yielded, exc, outfile, idx, result>>

OtherRunStep ==
    \E j \in 0..(MaxStale - 1) : OtherRunWritesChunk(j) \/ OtherRunRemovesChunk(j)

NextShared ==
    \/ Next
    \/ OtherRunStep

\* process_pdf while another run uses the same working directory
SpecShared == PipelineInit /\ [][NextShared]_vars

(***************************************************************************)
(* Properties                                                              *)
(***************************************************************************)
Returned == pc = "returned"
AllTasksReturned == \A i \in Indices : i \in DOMAIN task /\ task[i] = "returned"
SomeTaskRaised == \E i \in DOMAIN task : task[i] = "raised"
ErrorOutcome ==
    /\ result # None
    /\ result[1].audio = None
    /\ result[1].error # None
    /\ result[1].error[1] # ""
    /\ result[1].text = None

RECURSIVE ConcatAudio(_)
\* chunk_audio[0] ++ ... ++ chunk_audio[n-1]
ConcatAudio(n) == IF n = 0 THEN <<>> ELSE ConcatAudio(n - 1) \o chunk_audio[n - 1]

\* C1: a run of process_pdf over N >= 1 chunks whose tasks all succeed
\* returns temp_audio.mp3 holding payload(0) ++ ... ++ payload(N-1), whatever
\* the order in which the tasks completed.
C1_AssembledInIndexOrder ==
    (Returned /\ Len(chunks) >= 1 /\ AllTasksReturned) =>
        /\ outfile = Some(ConcatAudio(Len(chunks)))
        /\ result[1].audio = Some(temp_audio_path)

\* three or more chunks, the first two futures yielded out of index order
\* and with different payloads
C1_Witness ==
    /\ Returned
    /\ Len(chunks) >= 3
    /\ AllTasksReturned
    /\ yielded[1] > yielded[2]
    /\ chunk_audio[yielded[1]] # chunk_audio[yielded[2]]
    /\ outfile = Some(ConcatAudio(Len(chunks)))

\* C2: once a synthesis task has failed, the assembly never runs (the output
\* file is never opened), and process_pdf returns no audio and a non-empty
\* error message.
C2_FailureDiscardsAll ==
    SomeTaskRaised =>
        /\ pc \notin {"open_output", "assemble", "cleanup"}
        /\ outfile = None
        /\ Returned => ErrorOutcome

\* a run that returned with one task failed and another succeeded
C2_Witness ==
    /\ Returned
    /\ SomeTaskRaised
    /\ \E i \in DOMAIN task : task[i] = "returned"
    /\ ErrorOutcome
    /\ outfile = None

\* C3: when process_pdf has returned, no chunk file written by the run is
\* left in the temporary chunk directory.
C3_NoChunkFileRemains == Returned => written \cap DOMAIN fs = {}

\* C4: every chunk of split_text_into_chunks(T, B) has length at most B.
C4_ChunksWithinBound ==
    fpc = "split" => \A k \in 1..Len(chunks) : Len(chunks[k]) <= max_length

RECURSIVE NonWhitespace(_)
NonWhitespace(s) ==
    IF s = <<>> THEN <<>>
    ELSE IF Head(s) \in WHITESPACE THEN NonWhitespace(Tail(s))
         ELSE <<Head(s)>> \o NonWhitespace(Tail(s))

RECURSIVE Flatten(_)
Flatten(ss) == IF ss = <<>> THEN <<>> ELSE Head(ss) \o Flatten(Tail(ss))

RECURSIVE Reconstructs(_, _, _, _)
\* t from position i on is chunks k.. in order, each found unchanged, with
\* nothing but whitespace before, between and after them
Reconstructs(t, i, cs, k) ==
    IF k > Len(cs)
    THEN RunLen(t, i, WHITESPACE) = Len(t) - i + 1
    ELSE \E gap \in 0..RunLen(t, i, WHITESPACE) :
            /\ i + gap + Len(cs[k]) - 1 <= Len(t)
            /\ SubSeq(t, i + gap, i + gap + Len(cs[k]) - 1) = cs[k]
            /\ Reconstructs(t, i + gap + Len(cs[k]), cs, k + 1)

\* C5: the chunks hold the non-whitespace characters of T in order, and T
\* is the chunks in order with only whitespace trimmed between them (no
\* whitespace added or removed inside a chunk).
C5_SplitKeepsContent ==
    fpc = "split" =>
        /\ NonWhitespace(Flatten(chunks)) = NonWhitespace(text)
        /\ Reconstructs(text, 1, chunks, 1)

\* C6 as stated: a text no longer than the bound gives exactly one chunk,
\* the text with leading and trailing whitespace trimmed.
C6_ShortTextTrimmed ==
    (fpc = "split" /\ Len(text) <= max_length) => chunks = <<strip(text)>>

\* C6 amended: a text no longer than the bound gives exactly one chunk, the
\* text itself, leading and trailing whitespace included.
C6_ShortTextUnchanged ==
    (fpc = "split" /\ Len(text) <= max_length) => chunks = <<text>>

C6_Witness ==
    /\ fpc = "split"
    /\ Len(text) <= max_length
    /\ strip(text) # text
    /\ chunks = <<text>>

\* C7: with a missing or empty api_key nothing runs: no extraction call, no
\* synthesis task, no temporary directory, and the error outcome is returned.
C7_MissingKeyShortCircuits ==
    (api_key = None \/ api_key = Some("")) =>
        /\ extract_calls = 0
        /\ DOMAIN task = {}
        /\ \A i \in DOMAIN synth_calls : synth_calls[i] = 0
        /\ ~dir_created
        /\ fs \in [DOMAIN fs -> {StalePayload}]
        /\ outfile = None
        /\ pc \in {"check_key", "returned"}
        /\ Returned => ErrorOutcome

C7_Witness ==
    /\ Returned
    /\ api_key = Some("")
    /\ result[1].error = Some("OpenAI API key is required")
    /\ extract_calls = 0

\* C8: the stages run in the order Extract, Normalize, Split, Dispatch,
\* Assemble, and a failure short-circuits: after a failed extraction no task
\* is ever submitted, after any failure the output is never assembled, and the
\* run ends in the error outcome.
C8_StagesShortCircuit ==
    /\ cleaned # None => text # None
    /\ chunks # <<>> => cleaned # None
    /\ DOMAIN task # {} => chunks # <<>> /\ dir_created
    /\ outfile # None => AllTasksReturned /\ Len(chunks) >= 1
    /\ exc # None =>
          /\ outfile = None
          /\ pc \in {"shutdown", "except", "returned"}
          /\ text = None => cleaned = None /\ chunks = <<>> /\ DOMAIN task = {}
          /\ Returned => ErrorOutcome

\* extraction failed and the run has returned
C8_Witness ==
    /\ Returned
    /\ extract_calls = 1
    /\ text = None
    /\ exc # None
    /\ DOMAIN task = {}
    /\ ErrorOutcome

\* C9: clean_text(clean_text(T)) = clean_text(T).
C9_CleanIdempotent == fpc = "recleaned" => recleaned = cleaned

\* the slots are complete while the assembler reads them
SlotsFilledAtAssembly ==
    pc \in {"open_output", "assemble"} =>
        /\ DOMAIN chunk_files = Indices
        /\ \A i \in Indices : chunk_files[i] = Some(chunk_filename(i))
        /\ \A i \in DOMAIN task : Settled(i)

\* a step that changes a slot fills an empty slot i with the result of the
\* task of chunk i, during collection
SlotWriteStep ==
    \A i \in DOMAIN chunk_files \cap DOMAIN chunk_files' :
        chunk_files'[i] # chunk_files[i] =>
            /\ pc = "collect"
            /\ chunk_files[i] = None
            /\ task[i] = "returned"
            /\ chunk_files'[i] = Some(chunk_filename(i))

\* C10: every slot of chunk_files is written at most once, with the result
\* of the task of its own index; the assembler reads the slots only after all
\* writes, when the filled indices are exactly 0 .. N-1.
C10_SlotDiscipline == []SlotsFilledAtAssembly /\ [][SlotWriteStep]_vars

C10_Witness ==
    /\ pc = "assemble"
    /\ Len(chunks) >= 3
    /\ idx = 1
    /\ yielded[1] # 0
    /\ \A i \in Indices : chunk_files[i] = Some(chunk_filename(i))

\* C11: every chunk index gets exactly one task, generate_audio_chunk is
\* called at most once per index (exactly once for a task that has started),
\* a task that raised is not run again, and a run with a failed task returns
\* the error outcome.
C11_OneCallPerChunk ==
    /\ DOMAIN task \subseteq Indices
    /\ DOMAIN synth_calls = DOMAIN task
    /\ pc \in {"collect", "shutdown", "open_output", "assemble", "cleanup"} =>
          DOMAIN task = Indices
    /\ \A i \in DOMAIN task :
          /\ synth_calls[i] <= 1
          /\ task[i] = "pending" <=> synth_calls[i] = 0
    /\ (Returned /\ SomeTaskRaised) => ErrorOutcome /\ DOMAIN task = Indices

\* a returned run of two or more chunks, one of them failed, each called once
C11_Witness ==
    /\ Returned
    /\ Len(chunks) >= 2
    /\ SomeTaskRaised
    /\ \A i \in Indices : synth_calls[i] = 1
    /\ ErrorOutcome

RECURSIVE WordsFrom(_, _, _)
WordsFrom(s, i, piece) ==
    LET done == IF piece = <<>> THEN <<>> ELSE <<piece>>
    IN  IF i > Len(s) THEN done
        ELSE IF s[i] \in WHITESPACE THEN done \o WordsFrom(s, i + 1, <<>>)
             ELSE WordsFrom(s, i + 1, Append(piece, s[i]))

\* the maximal runs of non-whitespace characters of s, in order
WhitespaceWords(s) == WordsFrom(s, 1, <<>>)

RECURSIVE SpaceWordsOf(_)
SpaceWordsOf(paragraphs) ==
    IF paragraphs = <<>> THEN <<>>
    ELSE str_split(Head(paragraphs), <<SP>>) \o SpaceWordsOf(Tail(paragraphs))

\* the pieces of s between single spaces and paragraph separators, in order
\* (a single newline does not end such a piece)
SpaceWords(s) == SpaceWordsOf(str_split(s, <<NL, NL>>))

RECURSIVE Oversized(_, _)
\* the words longer than max, in order, each trimmed at its ends
Oversized(words, max) ==
    IF words = <<>> THEN <<>>
    ELSE (IF Len(Head(words)) > max THEN <<strip(Head(words))>> ELSE <<>>)
         \o Oversized(Tail(words), max)

RECURSIVE OwnChunks(_, _, _, _)
\* words i.. are, in order, whole chunks among chunks k..
OwnChunks(words, i, cs, k) ==
    IF i > Len(words) THEN TRUE
    ELSE IF k > Len(cs) THEN FALSE
    ELSE IF cs[k] = words[i] THEN OwnChunks(words, i + 1, cs, k + 1)
    ELSE OwnChunks(words, i, cs, k + 1)

\* C12 as stated: every whitespace-delimited word of T longer than the bound
\* is a chunk of its own, unmodified, with no other word in that chunk,
\* wherever the word stands in T.
C12_OversizedWordAlone ==
    fpc = "split" =>
        OwnChunks(Oversized(WhitespaceWords(text), max_length), 1, chunks, 1)

\* C12 amended: every word longer than the bound is a chunk of its own, with
\* no other word in that chunk, where a word is what lies between single
\* spaces (or paragraph separators) and the chunk is the word with the
\* whitespace at its ends trimmed.
C12_OversizedSpaceWordAlone ==
    fpc = "split" =>
        OwnChunks(Oversized(SpaceWords(text), max_length), 1, chunks, 1)

\* an oversized word in the middle of its sentence: the chunk before it holds
\* the flushed buffer and the chunk after it the rest
C12_Witness ==
    /\ fpc = "split"
    /\ Len(chunks) >= 3
    /\ \E k \in 2..(Len(chunks) - 1) :
          /\ Len(chunks[k]) > max_length
          /\ chunks[k] \in Range(SpaceWords(text))
          /\ chunks[k - 1] # <<>>
          /\ chunks[k + 1] # <<>>

\* the positions of the periods that are followed by a space
Boundaries(t) == {i \in 1..(Len(t) - 1) : t[i] = DOT /\ t[i + 1] = SP}

HasParagraphSeparator(t) == \E i \in 1..(Len(t) - 1) : t[i] = NL /\ t[i + 1] = NL

\* C13: a text of exactly bound + 1 characters without paragraph separator
\* and with exactly one sentence boundary, a sentence on each side of it and
\* neither side longer than the bound, is split into exactly two chunks at
\* that boundary, the first ending with the period.
C13_SplitsAtBoundary ==
    (/\ fpc = "split"
     /\ Len(text) = max_length + 1
     /\ ~HasParagraphSeparator(text)
     /\ Cardinality(Boundaries(text)) = 1) =>
        \A i \in Boundaries(text) :
            LET first == SubSeq(text, 1, i)
                second == SubSeq(text, i + 2, Len(text))
            IN  (/\ Len(first) <= max_length
                 /\ Len(second) <= max_length
                 /\ NonWhitespace(first) # <<>>
                 /\ NonWhitespace(second) # <<>>) =>
                    chunks = <<strip(first), strip(second)>>

Paragraphs(t) == str_split(t, <<NL, NL>>)

RECURSIVE SentencesOf(_)
SentencesOf(paragraphs) ==
    IF paragraphs = <<>> THEN <<>>
    ELSE split_sentences(Head(paragraphs)) \o SentencesOf(Tail(paragraphs))

\* the sentences of t in order, each with the ". " that ends it
Sentences(t) == SentencesOf(Paragraphs(t))

\* a sentence without the space that follows its period
UpToPeriod(s) ==
    IF Len(s) >= 2 /\ s[Len(s) - 1] = DOT /\ s[Len(s)] = SP
    THEN SubSeq(s, 1, Len(s) - 1)
    ELSE s

RECURSIVE InkUpTo(_, _)
\* the number of non-whitespace characters in units 1..k
InkUpTo(units, k) ==
    IF k = 0 THEN 0 ELSE InkUpTo(units, k - 1) + Len(NonWhitespace(units[k]))

\* the non-whitespace characters of unit j all fall in one chunk of cs, when
\* units and cs both hold the non-whitespace characters of one text in order
InsideOneChunk(units, j, cs) ==
    \E k \in 1..Len(cs) :
        /\ InkUpTo(cs, k - 1) <= InkUpTo(units, j - 1)
        /\ InkUpTo(units, j) <= InkUpTo(cs, k)

ShortUnitsWhole(units, lengths, cs, max) ==
    \A j \in 1..Len(units) :
        (lengths[j] <= max /\ NonWhitespace(units[j]) # <<>>) =>
            InsideOneChunk(units, j, cs)

\* C14 as stated: every paragraph no longer than the bound lies inside one
\* chunk, and every sentence (the text up to and including its period) no
\* longer than the bound lies inside one chunk.
C14_ShortUnitsKeptWhole ==
    fpc = "split" =>
        /\ NonWhitespace(Flatten(chunks)) = NonWhitespace(text)
        /\ ShortUnitsWhole(Paragraphs(text),
                           [j \in 1..Len(Paragraphs(text)) |->
                               Len(Paragraphs(text)[j])],
                           chunks, max_length)
        /\ ShortUnitsWhole(Sentences(text),
                           [j \in 1..Len(Sentences(text)) |->
                               Len(UpToPeriod(Sentences(text)[j]))],
                           chunks, max_length)

\* C14 amended: every paragraph no longer than the bound lies inside one
\* chunk, and every sentence lies inside one chunk when its length counted
\* with the space after its period is no longer than the bound.
C14_ShortUnitsKeptWholeWithSpace ==
    fpc = "split" =>
        /\ NonWhitespace(Flatten(chunks)) = NonWhitespace(text)
        /\ ShortUnitsWhole(Paragraphs(text),
                           [j \in 1..Len(Paragraphs(text)) |->
                               Len(Paragraphs(text)[j])],
                           chunks, max_length)
        /\ ShortUnitsWhole(Sentences(text),
                           [j \in 1..Len(Sentences(text)) |->
                               Len(Sentences(text)[j])],
                           chunks, max_length)

\* a paragraph longer than the bound was split by sentences, and a sentence
\* of two words that fits the bound is a chunk, after a flushed buffer
C14_Witness ==
    /\ fpc = "split"
    /\ Len(text) > max_length
    /\ ~HasParagraphSeparator(text)
    /\ \E j \in 2..Len(Sentences(text)) :
          LET sentence == Sentences(text)[j]
          IN  /\ Len(sentence) <= max_length
              /\ Len(WhitespaceWords(sentence)) >= 2
              /\ \E k \in 2..Len(chunks) :
                    chunks[k] = strip(sentence) /\ chunks[k - 1] # <<>>

\* C16: for a text with at least one non-whitespace character, no chunk of
\* split_text_into_chunks is the empty string (so no empty text is submitted
\* for synthesis).
C16_NoEmptyChunk ==
    (fpc = "split" /\ NonWhitespace(text) # <<>>) =>
        \A k \in 1..Len(chunks) : chunks[k] # <<>>

\* C17: once process_pdf is past the with block (and so when it returns, on
\* the success path and on the failure path alike) every submitted task has
\* settled: each was run, none was cancelled, none is still calling the
\* service or writing its chunk file.
C17_ReturnsAfterTasksSettle ==
    pc \in {"open_output", "assemble", "cleanup", "except", "returned"} =>
        \A i \in DOMAIN task :
            /\ task[i] \in {"returned", "raised"}
            /\ synth_calls[i] = 1

\* a failed run of three or more chunks that returned after the first
\* collected future raised: the tasks never collected have run to the end
C17_Witness ==
    /\ Returned
    /\ ErrorOutcome
    /\ Len(chunks) >= 3
    /\ Len(yielded) = 1
    /\ task[yielded[1]] = "raised"
    /\ \E i \in DOMAIN task :
          /\ i \notin Range(yielded)
          /\ task[i] = "returned"
          /\ i \in written

SuccessOutcome ==
    /\ result # None
    /\ result[1].audio = Some(temp_audio_path)
    /\ result[1].error = None
    /\ cleaned # None
    /\ result[1].text = cleaned

\* C18: every run of process_pdf returns (it never blocks waiting for the
\* tasks, whatever the number of chunks and the pool size), and it returns
\* exactly one of the success outcome (audio path, no error, cleaned text)
\* and the error outcome (no audio, a non-empty message, no text).
C18_TerminatesInOneOutcome ==
    /\ <>Returned
    /\ [](Returned => (SuccessOutcome /\ ~ErrorOutcome) \/
                      (ErrorOutcome /\ ~SuccessOutcome))

\* a successful run with more chunks than pool workers
C18_Witness ==
    /\ Returned
    /\ SuccessOutcome
    /\ max_workers = 1
    /\ Len(chunks) >= 3
    /\ AllTasksReturned

\* every byte of the assembled output is a payload synthesized by this run
OutputIsOwn ==
    outfile # None =>
        \A k \in 1..Len(outfile[1]) :
            \E i \in DOMAIN chunk_audio : chunk_audio[i] = <<outfile[1][k]>>

\* a chunk file holding a payload of the other run is left as it is by every
\* step of this run
OtherRunFilesKept ==
    \A j \in DOMAIN fs :
        fs[j] = StalePayload =>
            \/ OtherRunStep
            \/ j \in DOMAIN fs' /\ fs'[j] = StalePayload

\* C15: when two runs share the working directory (interleaved, or one
\* after a failed one), this run never overwrites or deletes a chunk file
\* the other run wrote, and its assembled output holds only payloads it
\* synthesized itself.
C15_RunsIsolated == []OutputIsOwn /\ [][OtherRunFilesKept]_vars

====
